---- MODULE Spec2Model ----
(***************************************************************************)
(* review-gpt: the request layer of pkg/request/request.go together with   *)
(* the model registry and the parameter ranges of pkg/globals.             *)
(*                                                                         *)
(* One run of RequestImprovements is modelled as a sequence of steps       *)
(* (validate, build the body, create the request, send it, decode the      *)
(* response, collect the answers).  CheckFormat is also exercised on its   *)
(* own, as the pure function it is, under SpecValidate.                    *)
(*                                                                         *)
(* float64 values are modelled as records [nan, v]: either NaN or a whole  *)
(* number v.  Go's < and > are false whenever an operand is NaN.           *)
(***************************************************************************)
EXTENDS Integers, Sequences, FiniteSets, TLC

VARIABLES
    args,       \* the arguments of RequestImprovements
    pc,         \* position of the call
    model,      \* globals.Models[rawModel] (the zero Model when absent)
    hasModel,   \* the comma-ok flag of the same lookup
    params,     \* Body built by configureParams
    chatParams, \* ChatBody built by configureParams
    reqBody,    \* the marshalled JSON request body, or Nil
    req,        \* the *http.Request, or Nil
    resp,       \* the *http.Response returned by client.Do, or Nil
    apiReq,     \* the APIResponse filled in by json.Unmarshal
    calls,      \* how often each library call with an outside effect was made
    answers,    \* first return value
    err,        \* second return value
    vBody,      \* SpecValidate: the Body handed to CheckFormat
    vModel,     \* SpecValidate: the model flag handed to CheckFormat
    vErr,       \* SpecValidate: what CheckFormat returned
    vpc         \* SpecValidate: "call" before, "done" after the call

runVars == <<args, pc, model, hasModel, params, chatParams, reqBody, req, resp,
             apiReq, calls, answers, err>>
valVars == <<vBody, vModel, vErr, vpc>>
vars == <<args, pc, model, hasModel, params, chatParams, reqBody, req, resp,
          apiReq, calls, answers, err, vBody, vModel, vErr, vpc>>

-----------------------------------------------------------------------------
(* Bounds of the model *)

\* response bodies carry at most this many choices
MaxChoices == 2
\* CheckFormat is tried on every whole float in -FloatSpan..FloatSpan, and NaN
FloatSpan == 3
\* CheckFormat is tried on best_of from BestOfMin-BestOfSlack to BestOfMax+BestOfSlack
BestOfSlack == 1

-----------------------------------------------------------------------------
(* float64 *)

F(n) == [nan |-> FALSE, v |-> n]
NaN == [nan |-> TRUE, v |-> 0]

\* Go's a < b and a > b on float64: false when either side is NaN
FLess(a, b) == ~a.nan /\ ~b.nan /\ a.v < b.v
FGreater(a, b) == ~a.nan /\ ~b.nan /\ a.v > b.v

-----------------------------------------------------------------------------
(* pkg/globals *)

Turbo == [Name |-> "gpt-3.5-turbo", Chat |-> TRUE]
Davinci == [Name |-> "text-davinci-003", Chat |-> FALSE]
Curie == [Name |-> "text-curie-001", Chat |-> FALSE]
Babbage == [Name |-> "text-babbage-001", Chat |-> FALSE]
Ada == [Name |-> "text-ada-001", Chat |-> FALSE]
GPT4 == [Name |-> "gpt-4", Chat |-> TRUE]

\* the zero value of type Model, which a map lookup yields for a missing key
ZeroModel == [Name |-> "", Chat |-> FALSE]

ModelAliases == {"turbo", "davinci", "curie", "babbage", "ada", "gpt4"}

Models ==
    [a \in ModelAliases |->
        CASE a = "turbo" -> Turbo
          [] a = "davinci" -> Davinci
          [] a = "curie" -> Curie
          [] a = "babbage" -> Babbage
          [] a = "ada" -> Ada
          [] a = "gpt4" -> GPT4]

\* model := globals.Models[rawModel]
LookupModel(rawModel) ==
    IF rawModel \in DOMAIN Models THEN Models[rawModel] ELSE ZeroModel

\* _, hasModel := globals.Models[rawModel]
LookupHasModel(rawModel) == rawModel \in DOMAIN Models

TempRangeMin == 0
TempRangeMax == 1
TopPMin == 0
TopPMax == 1
PresenceMin == -2
PresenceMax == 2
FrequenceMin == -2
FrequenceMax == 2
BestOfMin == 1
BestOfMax == 20

\* error values; nil is NoErr
NoErr == [kind |-> "nil", msg |-> ""]
ErrWrongModel == [kind |-> "ErrWrongModel", msg |-> "The model you entered was not correct"]
ErrWrongTempRange == [kind |-> "ErrWrongTempRange", msg |-> "The temperature is not in the correct range (0 <= temp <= 1)"]
ErrWrongToppRange == [kind |-> "ErrWrongToppRange", msg |-> "The top_p is not in the correct range (0 <= top_p <= 1)"]
ErrWrongPresenceRange == [kind |-> "ErrWrongPresenceRange", msg |-> "The presence penalty is not in the correct range (-2 <= presence <= 2)"]
ErrWrongFrequenceRange == [kind |-> "ErrWrongFrequenceRange", msg |-> "The presence penalty is not in the correct range (-2 <= frequence <= 2)"]
ErrWrongBestOfRange == [kind |-> "ErrWrongBestOfRange", msg |-> "The best of variable is not in the correct range (1 <= best of  <= 20)"]

-----------------------------------------------------------------------------
(* pkg/request: CheckFormat *)

\* CheckFormat without its last test
CheckFormat_NoBestOf(body, modelOk) ==
    IF ~modelOk
    THEN ErrWrongModel
    ELSE IF FLess(body.Temperature, F(TempRangeMin)) \/ FGreater(body.Temperature, F(TempRangeMax))
    THEN ErrWrongTempRange
    ELSE IF FLess(body.Top_P, F(TopPMin)) \/ FGreater(body.Top_P, F(TopPMax))
    THEN ErrWrongToppRange
    ELSE IF FLess(body.Presence_Pen, F(PresenceMin)) \/ FGreater(body.Presence_Pen, F(PresenceMax))
    THEN ErrWrongPresenceRange
    ELSE IF FLess(body.Frequence_Pen, F(FrequenceMin)) \/ FGreater(body.Frequence_Pen, F(FrequenceMax))
    THEN ErrWrongFrequenceRange
    ELSE NoErr

CheckFormat(body, modelOk) ==
    IF ~modelOk
    THEN ErrWrongModel
    ELSE IF FLess(body.Temperature, F(TempRangeMin)) \/ FGreater(body.Temperature, F(TempRangeMax))
    THEN ErrWrongTempRange
    ELSE IF FLess(body.Top_P, F(TopPMin)) \/ FGreater(body.Top_P, F(TopPMax))
    THEN ErrWrongToppRange
    ELSE IF FLess(body.Presence_Pen, F(PresenceMin)) \/ FGreater(body.Presence_Pen, F(PresenceMax))
    THEN ErrWrongPresenceRange
    ELSE IF FLess(body.Frequence_Pen, F(FrequenceMin)) \/ FGreater(body.Frequence_Pen, F(FrequenceMax))
    THEN ErrWrongFrequenceRange
    ELSE IF body.Best_Of < BestOfMin \/ body.Best_Of > BestOfMax
    THEN ErrWrongBestOfRange
    ELSE NoErr

-----------------------------------------------------------------------------
(* pkg/request: constants and request construction *)

API_BASE_URL == "https://api.openai.com/v1/"
PROMPT_PREFIX == "From a code reviewer's perspective, Review the the git diff below and tell me what I can improve on in the code (the '+' in the git diff is an added line, the '-' is a removed line). Only review the changes that code that has been added i.e. the code denoted by the '+' icon all other codes i.e. codes denoted by '-' and with no indicator, are just for context dont comment on them. Do not suggest changes already made in the git diff. Do not explain the git diff. Only say what could be improved. Focus on what needs to be improved rather than what is already properly implemented. Also go into more detail, give me code snippets of how to enhance the code giving me code suggestions too. Give the response in Markdown"
CHAT_PROMPT_INSTRUCTIONS == "You are a very intelligentX and professional senior engineer with over 10 years of experience. You have a deep understanding of software engineering principles and best practices. You are also proficient in a variety of programming languages and technologies. You are passionate about writing high-quality code and ensuring that our code is well-reviewed. You review only the added changed code in the while code review. You are also committed to continuous learning and improvement. When reviewing code, You  typically look for the following: Correctness: Does the code work as intended? Readability: Is the code easy to read and understand? Maintainability: Is the code easy to maintain and extend? Performance: Is the code efficient and performant? Security: Is the code secure and free from vulnerabilities? You provide code reviewers  with specific feedback and suggestions for improvement the cod You will take in a git diff, and review it for the user. You will provide user with detailed code review feedback, including the following: File name under 'File Name' section, Line number under 'Line Number' section, Comment under 'Comment' section, Sugegested Refactored code snippet for code that needs refactoring under 'Suggested Change' section. Please also try to provide the user with specific suggestions for improvement, such as: How to make the code more readable, How to improve the performance of the code, How to make the code more secure, How to improve the overall design of the code. The user appreciates your feedback and the user will use it to improve their code."

\* the zero values of Body and ChatBody
ZeroBody ==
    [Model |-> "", Prompt |-> "", Temperature |-> F(0), Max_Tokens |-> 0,
     Top_P |-> F(0), Frequence_Pen |-> F(0), Presence_Pen |-> F(0), Best_Of |-> 0]
ZeroChatBody ==
    [Model |-> "", Messages |-> <<>>, Temperature |-> F(0), Max_Tokens |-> 0,
     Top_P |-> F(0), Frequence_Pen |-> F(0), Presence_Pen |-> F(0)]

\* configureParams returns (Body, ChatBody); the pair is a record here
configureParams(m, maxtokens, temperature, top_p, frequence, presence, bestof) ==
    [params |->
        [Model |-> m.Name, Prompt |-> "", Temperature |-> temperature,
         Max_Tokens |-> maxtokens, Top_P |-> top_p, Frequence_Pen |-> frequence,
         Presence_Pen |-> presence, Best_Of |-> bestof],
     chatParams |->
        [Model |-> m.Name, Messages |-> <<>>, Temperature |-> temperature,
         Max_Tokens |-> maxtokens, Top_P |-> top_p, Frequence_Pen |-> frequence,
         Presence_Pen |-> presence]]

\* a marshalled request body: the JSON object, keyed by the structs' json tags.
\* keys is the set of keys the object has; a key outside it is absent from the
\* object, and its field below only pads the record.
NoBuffer == [nil |-> TRUE]
ErrMarshalNaN == [kind |-> "json.Marshal", msg |-> "json: unsupported value: NaN"]

\* encoding/json refuses NaN (and the infinities) in a float64 field
MarshalFails(b) ==
    b.Temperature.nan \/ b.Top_P.nan \/ b.Frequence_Pen.nan \/ b.Presence_Pen.nan

\* json.Marshal(params) for a Body
MarshalBody(b) ==
    [nil |-> FALSE, keys |-> {"model", "prompt", "temperature", "max_tokens", "top_p",
                              "frequency_penalty", "presence_penalty", "best_of"},
     model |-> b.Model, prompt |-> b.Prompt, messages |-> <<>>,
     temperature |-> b.Temperature, max_tokens |-> b.Max_Tokens, top_p |-> b.Top_P,
     frequency_penalty |-> b.Frequence_Pen, presence_penalty |-> b.Presence_Pen,
     best_of |-> b.Best_Of]

\* json.Marshal(chatParams) for a ChatBody
MarshalChatBody(c) ==
    [nil |-> FALSE, keys |-> {"model", "messages", "temperature", "max_tokens", "top_p",
                              "frequency_penalty", "presence_penalty"},
     model |-> c.Model, prompt |-> "", messages |-> c.Messages,
     temperature |-> c.Temperature, max_tokens |-> c.Max_Tokens, top_p |-> c.Top_P,
     frequency_penalty |-> c.Frequence_Pen, presence_penalty |-> c.Presence_Pen,
     best_of |-> 0]

\* createRequestBody with the two messages in the wrong order
createRequestBody_UserFirst(m, p, c, gitDiff) ==
    LET prompt == PROMPT_PREFIX \o "\n" \o gitDiff \o "\n"
        sysMessage == [Role |-> "system", Content |-> CHAT_PROMPT_INSTRUCTIONS]
        usrMessage == [Role |-> "user", Content |-> gitDiff]
        c2 == IF m.Chat THEN [c EXCEPT !.Messages = <<usrMessage, sysMessage>>] ELSE c
        p2 == IF m.Chat THEN p ELSE [p EXCEPT !.Prompt = prompt]
        failed == IF m.Chat THEN MarshalFails(c2) ELSE MarshalFails(p2)
    IN  IF failed
        THEN [buf |-> NoBuffer, err |-> ErrMarshalNaN]
        ELSE [buf |-> IF m.Chat THEN MarshalChatBody(c2) ELSE MarshalBody(p2),
              err |-> NoErr]

\* createRequestBody returns (*bytes.Buffer, error)
createRequestBody(m, p, c, gitDiff) ==
    LET prompt == PROMPT_PREFIX \o "\n" \o gitDiff \o "\n"
        sysMessage == [Role |-> "system", Content |-> CHAT_PROMPT_INSTRUCTIONS]
        usrMessage == [Role |-> "user", Content |-> gitDiff]
        c2 == IF m.Chat THEN [c EXCEPT !.Messages = <<sysMessage, usrMessage>>] ELSE c
        p2 == IF m.Chat THEN p ELSE [p EXCEPT !.Prompt = prompt]
        failed == IF m.Chat THEN MarshalFails(c2) ELSE MarshalFails(p2)
    IN  IF failed
        THEN [buf |-> NoBuffer, err |-> ErrMarshalNaN]
        ELSE [buf |-> IF m.Chat THEN MarshalChatBody(c2) ELSE MarshalBody(p2),
              err |-> NoErr]

\* endUrl left at its initial value for every model
RequestUrl_AlwaysCompletions(m) == API_BASE_URL \o "completions"

\* endUrl and url of RequestImprovements
RequestUrl(m) == API_BASE_URL \o (IF m.Chat THEN "chat/completions" ELSE "completions")

NoRequest == [nil |-> TRUE]

\* http.NewRequest("POST", url, reqBody) followed by the two Header.Set calls
NewRequestWithHeaders(m, key, buf) ==
    [nil |-> FALSE, method |-> "POST", url |-> RequestUrl(m), body |-> buf,
     Authorization |-> "Bearer " \o key, ContentType |-> "application/json"]

-----------------------------------------------------------------------------
(* pkg/request: the response and its decoding *)

\* A JSON string member of the response: absent, or present with a value.
JAbsent == [has |-> FALSE, s |-> ""]
JStr(x) == [has |-> TRUE, s |-> x]

\* json.Unmarshal leaves the zero value "" for an absent string member
DecodeString(j) == IF j.has THEN j.s ELSE ""

\* json.Unmarshal of one element of "choices" into an APIText
DecodeChoice(j) ==
    [Text |-> DecodeString(j.text),
     Message |-> [Role |-> IF j.content.has THEN "assistant" ELSE "",
                  Content |-> DecodeString(j.content)]]

\* json.Unmarshal of the "error" member into *ApiErr: an absent or null member
\* leaves the pointer nil, an object allocates an ApiErr
NilApiErr == [nil |-> TRUE, Message |-> ""]
DecodeError(j) ==
    IF j.kind = "object"
    THEN [nil |-> FALSE, Message |-> DecodeString(j.message)]
    ELSE NilApiErr

ZeroAPIResponse == [Err |-> NilApiErr, Choices |-> <<>>]
ErrUnmarshal == [kind |-> "json.Unmarshal", msg |-> "invalid character"]

\* json.Unmarshal(body, &apiReq): (error, the APIResponse it filled in)
Unmarshal(body) ==
    IF ~body.valid
    THEN [err |-> ErrUnmarshal, apiReq |-> ZeroAPIResponse]
    ELSE [err |-> NoErr,
          apiReq |-> [Err |-> DecodeError(body.error),
                      Choices |-> [i \in 1..Len(body.choices) |->
                                      DecodeChoice(body.choices[i])]]]

\* the upstream message replaced by the canned globals.ErrWrongKey
ErrorsNew_WrongKey(msg) ==
    [kind |-> "ErrWrongKey",
     msg |-> "The API Kry you entered is either wrong or hasn't been set up with a paid account of GPT. You must sign up for a paid account at Openai GPT."]

\* errors.New(err.Message)
ErrorsNew(msg) == [kind |-> "errors.New", msg |-> msg]

\* the loop without the len(c.Text) != 0 test
RECURSIVE AppendChoices_KeepEmpty(_, _, _)
AppendChoices_KeepEmpty(acc, chat, choices) ==
    IF choices = <<>>
    THEN acc
    ELSE LET c == Head(choices)
             next == IF chat THEN Append(acc, c.Message.Content) ELSE Append(acc, c.Text)
         IN  AppendChoices_KeepEmpty(next, chat, Tail(choices))

\* the loop with the emptiness test applied to chat choices too
RECURSIVE AppendChoices_ChatSkipsEmpty(_, _, _)
AppendChoices_ChatSkipsEmpty(acc, chat, choices) ==
    IF choices = <<>>
    THEN acc
    ELSE LET c == Head(choices)
             s == IF chat THEN c.Message.Content ELSE c.Text
             next == IF Len(s) # 0 THEN Append(acc, s) ELSE acc
         IN  AppendChoices_ChatSkipsEmpty(next, chat, Tail(choices))

\* the loop over apiReq.Choices, appending to answers
RECURSIVE AppendChoices(_, _, _)
AppendChoices(acc, chat, choices) ==
    IF choices = <<>>
    THEN acc
    ELSE LET c == Head(choices)
             next == IF chat
                     THEN Append(acc, c.Message.Content)
                     ELSE IF Len(c.Text) # 0 THEN Append(acc, c.Text) ELSE acc
         IN  AppendChoices(next, chat, Tail(choices))

\* the apiReq.Err test moved behind the loop
Interpret_ErrorAfterLoop(ans, m, r) ==
    [answers |-> AppendChoices(ans, m.Chat, r.Choices),
     err |-> IF ~r.Err.nil THEN ErrorsNew(r.Err.Message) ELSE NoErr]

\* the tail of RequestImprovements, from the apiReq.Err test to the final
\* return: the pair (answers, err) it returns
Interpret(ans, m, r) ==
    IF ~r.Err.nil
    THEN [answers |-> ans, err |-> ErrorsNew(r.Err.Message)]
    ELSE [answers |-> AppendChoices(ans, m.Chat, r.Choices), err |-> NoErr]

-----------------------------------------------------------------------------
(* The inputs of a run and the responses the server may give *)

NoResponse == [nil |-> TRUE]

\* float arguments: below every range, inside every range, above every range, NaN
RunFloats == {F(-FloatSpan), F(0), F(FloatSpan), NaN}
RunBestOf == {BestOfMin - BestOfSlack, BestOfMin, BestOfMax + BestOfSlack}
RunAliases == ModelAliases \cup {"llama"}
RunDiffs == {"+a", "-b"}

RunArgs ==
    [key : {"sk-test"}, gitDiff : RunDiffs, rawModel : RunAliases, maxtokens : {500},
     temperature : RunFloats, top_p : RunFloats, frequence : RunFloats,
     presence : RunFloats, bestof : RunBestOf]

JTexts == {JAbsent, JStr(""), JStr("a"), JStr("b")}
JChoices == [text : JTexts, content : JTexts]
JErrors ==
    {[kind |-> "absent", message |-> JAbsent],
     [kind |-> "null", message |-> JAbsent],
     [kind |-> "object", message |-> JAbsent],
     [kind |-> "object", message |-> JStr("invalid api key")]}
ChoiceSeqs == UNION {[1..n -> JChoices] : n \in 0..MaxChoices}

\* a body that is not JSON, or not JSON of the shape of APIResponse
GarbageBody == [valid |-> FALSE, error |-> [kind |-> "absent", message |-> JAbsent],
                choices |-> <<>>]
ResponseBodies ==
    {GarbageBody} \cup [valid : {TRUE}, error : JErrors, choices : ChoiceSeqs]
StatusCodes == {200, 401}
Responses == [nil : {FALSE}, StatusCode : StatusCodes, Body : ResponseBodies]

ErrTransport == [kind |-> "client.Do", msg |-> "dial tcp: connection refused"]

NoCalls == [NewRequest |-> 0, Do |-> 0, ReadAll |-> 0, Unmarshal |-> 0,
            LogError |-> 0, LogPanic |-> 0]

-----------------------------------------------------------------------------
(* RequestImprovements, step by step *)

RunIdle ==
    /\ model = ZeroModel /\ hasModel = FALSE
    /\ params = ZeroBody /\ chatParams = ZeroChatBody
    /\ reqBody = NoBuffer /\ req = NoRequest /\ resp = NoResponse
    /\ apiReq = ZeroAPIResponse /\ calls = NoCalls
    /\ answers = <<>> /\ err = NoErr

ValidateIdle ==
    /\ vBody = ZeroBody /\ vModel = FALSE /\ vErr = NoErr /\ vpc = "off"

Init ==
    /\ args \in RunArgs
    /\ pc = "start"
    /\ RunIdle
    /\ ValidateIdle

\* Validate with the CheckFormat error recorded but the return forgotten
Validate_NoEarlyReturn ==
    /\ pc = "start"
    /\ LET m == LookupModel(args.rawModel)
           h == LookupHasModel(args.rawModel)
           cp == configureParams(m, args.maxtokens, args.temperature, args.top_p,
                                 args.frequence, args.presence, args.bestof)
       IN  /\ model' = m
           /\ hasModel' = h
           /\ params' = cp.params
           /\ chatParams' = cp.chatParams
           /\ answers' = <<>>
           /\ err' = CheckFormat(cp.params, h)
           /\ pc' = "checked"
    /\ UNCHANGED <<args, reqBody, req, resp, apiReq, calls, valVars>>

\* answers := []string{} ... if err := CheckFormat(params, hasModel); err != nil
Validate ==
    /\ pc = "start"
    /\ LET m == LookupModel(args.rawModel)
           h == LookupHasModel(args.rawModel)
           cp == configureParams(m, args.maxtokens, args.temperature, args.top_p,
                                 args.frequence, args.presence, args.bestof)
           e == CheckFormat(cp.params, h)
       IN  /\ model' = m
           /\ hasModel' = h
           /\ params' = cp.params
           /\ chatParams' = cp.chatParams
           /\ answers' = <<>>
           /\ err' = e
           /\ pc' = IF e # NoErr THEN "returned" ELSE "checked"
    /\ UNCHANGED <<args, reqBody, req, resp, apiReq, calls, valVars>>

\* the createRequestBody error logged, and the call carried on with a nil body
CreateBody_LogAndContinue ==
    /\ pc = "checked"
    /\ LET r == createRequestBody(model, params, chatParams, args.gitDiff)
       IN  /\ reqBody' = r.buf
           /\ err' = r.err
           /\ calls' = IF r.err # NoErr
                       THEN [calls EXCEPT !.LogError = @ + 1]
                       ELSE calls
           /\ pc' = "built"
    /\ UNCHANGED <<args, model, hasModel, params, chatParams, req, resp, apiReq,
                   answers, valVars>>

\* reqBody, err := createRequestBody(...); if err != nil { log; return answers, err }
CreateBody ==
    /\ pc = "checked"
    /\ LET r == createRequestBody(model, params, chatParams, args.gitDiff)
       IN  /\ reqBody' = r.buf
           /\ err' = r.err
           /\ calls' = IF r.err # NoErr
                       THEN [calls EXCEPT !.LogError = @ + 1]
                       ELSE calls
           /\ pc' = IF r.err # NoErr THEN "returned" ELSE "built"
    /\ UNCHANGED <<args, model, hasModel, params, chatParams, req, resp, apiReq,
                   answers, valVars>>

\* endUrl, url, http.NewRequest, req.Header.Set x 2.  NewRequest fails only on
\* a bad method or an unparsable URL; "POST" and the two URLs here are neither.
NewRequest ==
    /\ pc = "built"
    /\ req' = NewRequestWithHeaders(model, args.key, reqBody)
    /\ calls' = [calls EXCEPT !.NewRequest = @ + 1]
    /\ pc' = "created"
    /\ UNCHANGED <<args, model, hasModel, params, chatParams, reqBody, resp, apiReq,
                   answers, err, valVars>>

\* client.Do tried again after a transport error
DoFails_Retry ==
    /\ pc = "created"
    /\ calls' = [calls EXCEPT !.Do = @ + 1]
    /\ err' = ErrTransport
    /\ pc' = "created"
    /\ UNCHANGED <<args, model, hasModel, params, chatParams, reqBody, req, resp,
                   apiReq, answers, valVars>>

\* the transport error swallowed: return answers, nil
DoFails_Swallow ==
    /\ pc = "created"
    /\ calls' = [calls EXCEPT !.Do = @ + 1]
    /\ err' = NoErr
    /\ pc' = "returned"
    /\ UNCHANGED <<args, model, hasModel, params, chatParams, reqBody, req, resp,
                   apiReq, answers, valVars>>

\* resp, err := client.Do(req) fails: return answers, err
DoFails ==
    /\ pc = "created"
    /\ calls' = [calls EXCEPT !.Do = @ + 1]
    /\ err' = ErrTransport
    /\ pc' = "returned"
    /\ UNCHANGED <<args, model, hasModel, params, chatParams, reqBody, req, resp,
                   apiReq, answers, valVars>>

\* resp, err := client.Do(req) yields a response, whatever its status
DoResponds ==
    /\ pc = "created"
    /\ \E r \in Responses : resp' = r
    /\ calls' = [calls EXCEPT !.Do = @ + 1]
    /\ pc' = "responded"
    /\ UNCHANGED <<args, model, hasModel, params, chatParams, reqBody, req, apiReq,
                   answers, err, valVars>>

\* a response that is not 200 OK turned into globals.ErrWrongKey, body unread
Decode_StatusChecked ==
    /\ pc = "responded"
    /\ LET d == Unmarshal(resp.Body)
           ok == resp.StatusCode = 200
       IN  /\ apiReq' = IF ok THEN d.apiReq ELSE apiReq
           /\ err' = IF ok THEN d.err ELSE ErrorsNew_WrongKey("")
           /\ calls' = IF ok
                       THEN [calls EXCEPT !.ReadAll = @ + 1, !.Unmarshal = @ + 1,
                                          !.LogPanic = IF d.err # NoErr THEN @ + 1 ELSE @]
                       ELSE calls
           /\ pc' = IF ~ok THEN "returned"
                    ELSE IF d.err # NoErr THEN "panicked" ELSE "decoded"
    /\ UNCHANGED <<args, model, hasModel, params, chatParams, reqBody, req, resp,
                   answers, valVars>>

\* body, _ := io.ReadAll(resp.Body); err = json.Unmarshal(body, &apiReq);
\* if err != nil { globals.Log.Panic().Msg(err.Error()) }
\* zerolog's Panic event calls panic(msg) from Msg: the goroutine unwinds and
\* RequestImprovements returns nothing.
Decode ==
    /\ pc = "responded"
    /\ LET d == Unmarshal(resp.Body)
       IN  /\ apiReq' = d.apiReq
           /\ err' = d.err
           /\ calls' = [calls EXCEPT !.ReadAll = @ + 1, !.Unmarshal = @ + 1,
                                     !.LogPanic = IF d.err # NoErr THEN @ + 1 ELSE @]
           /\ pc' = IF d.err # NoErr THEN "panicked" ELSE "decoded"
    /\ UNCHANGED <<args, model, hasModel, params, chatParams, reqBody, req, resp,
                   answers, valVars>>

\* if apiReq.Err != nil { return answers, errors.New(err.Message) }
\* for _, c := range choices { ... }; return answers, nil
Collect ==
    /\ pc = "decoded"
    /\ LET out == Interpret(answers, model, apiReq)
       IN  /\ answers' = out.answers
           /\ err' = out.err
    /\ pc' = "returned"
    /\ UNCHANGED <<args, model, hasModel, params, chatParams, reqBody, req, resp,
                   apiReq, calls, valVars>>

Next ==
    \/ Validate
    \/ CreateBody
    \/ NewRequest
    \/ DoFails
    \/ DoResponds
    \/ Decode
    \/ Collect

Spec == Init /\ [][Next]_vars

-----------------------------------------------------------------------------
(* CheckFormat on its own *)

ValidateFloats == {F(n) : n \in (-FloatSpan)..FloatSpan} \cup {NaN}
ValidateBestOf == (BestOfMin - BestOfSlack)..(BestOfMax + BestOfSlack)
ValidateBodies ==
    [Model : {""}, Prompt : {""}, Temperature : ValidateFloats, Max_Tokens : {500},
     Top_P : ValidateFloats, Frequence_Pen : ValidateFloats,
     Presence_Pen : ValidateFloats, Best_Of : ValidateBestOf]

\* no run of RequestImprovements is in progress under SpecValidate
IdleArgs ==
    [key |-> "sk-test", gitDiff |-> "+a", rawModel |-> "llama", maxtokens |-> 500,
     temperature |-> F(0), top_p |-> F(0), frequence |-> F(0), presence |-> F(0),
     bestof |-> BestOfMin]

InitValidate ==
    /\ vBody \in ValidateBodies
    /\ vModel \in BOOLEAN
    /\ vErr = NoErr
    /\ vpc = "call"
    /\ args = IdleArgs
    /\ pc = "off"
    /\ RunIdle

CallCheckFormat ==
    /\ vpc = "call"
    /\ vErr' = CheckFormat(vBody, vModel)
    /\ vpc' = "done"
    /\ UNCHANGED <<vBody, vModel, runVars>>

NextValidate == CallCheckFormat

SpecValidate == InitValidate /\ [][NextValidate]_vars

-----------------------------------------------------------------------------
(* What the specification says of the validator *)

\* x lies in the closed interval [lo, hi]; NaN lies in no interval
InRange(x, lo, hi) == ~x.nan /\ lo <= x.v /\ x.v <= hi

\* the error of the first failing check, in the order of the specification
FirstFailingCheck(body, modelFound) ==
    IF ~modelFound THEN ErrWrongModel
    ELSE IF ~InRange(body.Temperature, 0, 1) THEN ErrWrongTempRange
    ELSE IF ~InRange(body.Top_P, 0, 1) THEN ErrWrongToppRange
    ELSE IF ~InRange(body.Presence_Pen, -2, 2) THEN ErrWrongPresenceRange
    ELSE IF ~InRange(body.Frequence_Pen, -2, 2) THEN ErrWrongFrequenceRange
    ELSE IF ~(1 <= body.Best_Of /\ body.Best_Of <= 20) THEN ErrWrongBestOfRange
    ELSE NoErr

\* C1: CheckFormat returns the error of the first failing check in the order
\* model found, temperature in [0,1], topP in [0,1], presencePenalty in [-2,2],
\* frequencyPenalty in [-2,2], bestOf in [1,20], and nil exactly when every
\* check passes; an unknown alias gives ErrWrongModel whatever the rest is.
C1_FirstFailureWins ==
    vpc = "done" =>
        /\ vErr = FirstFailingCheck(vBody, vModel)
        /\ (~vModel => vErr = ErrWrongModel)

\* C2: for every temperature outside [0,1] CheckFormat returns
\* ErrWrongTempRange, even when other parameters are invalid too.  The model
\* test comes first (C1), so the statement is made for a model that was found.
C2_TemperatureOutsideRange ==
    (vpc = "done" /\ vModel /\ ~InRange(vBody.Temperature, 0, 1)) =>
        vErr = ErrWrongTempRange

-----------------------------------------------------------------------------
(* RequestImprovements: validation comes before the network *)

\* the six errors CheckFormat can return
ValidationErrors ==
    {ErrWrongModel, ErrWrongTempRange, ErrWrongToppRange, ErrWrongPresenceRange,
     ErrWrongFrequenceRange, ErrWrongBestOfRange}

\* a parameter of the call is out of its range, or the alias is unknown, in the
\* sense of the comparisons CheckFormat makes
Below(x, lo) == ~x.nan /\ x.v < lo
Above(x, hi) == ~x.nan /\ x.v > hi
Rejected(a) ==
    \/ a.rawModel \notin ModelAliases
    \/ Below(a.temperature, 0) \/ Above(a.temperature, 1)
    \/ Below(a.top_p, 0) \/ Above(a.top_p, 1)
    \/ Below(a.presence, -2) \/ Above(a.presence, 2)
    \/ Below(a.frequence, -2) \/ Above(a.frequence, 2)
    \/ a.bestof < 1 \/ a.bestof > 20

\* C3: when validation fails no HTTP request is created or sent, at any point
\* of the run, and the caller receives the validation error with no comments.
C3_ValidationBeforeNetwork ==
    (pc # "start" /\ Rejected(args)) =>
        /\ pc = "returned"
        /\ err \in ValidationErrors
        /\ err = CheckFormat(params, hasModel)
        /\ answers = <<>>
        /\ req.nil /\ reqBody.nil /\ resp.nil
        /\ calls.NewRequest = 0 /\ calls.Do = 0

\* a run rejected for its temperature alone has returned without any call
C3_Witness ==
    /\ pc = "returned"
    /\ args.rawModel = "gpt4"
    /\ args.temperature = F(FloatSpan)
    /\ err = ErrWrongTempRange
    /\ calls = NoCalls

-----------------------------------------------------------------------------
(* RequestImprovements: best_of and the chat family *)

\* a chat alias with every float parameter inside its range
ChatCallOtherwiseFine(a) ==
    /\ a.rawModel \in {"turbo", "gpt4"}
    /\ InRange(a.temperature, 0, 1) /\ InRange(a.top_p, 0, 1)
    /\ InRange(a.presence, -2, 2) /\ InRange(a.frequence, -2, 2)

BestOfOutside(a) == a.bestof < 1 \/ a.bestof > 20

\* C4, as stated: for a chat model best_of is not validated, so a call with a
\* chat model, every other parameter in range and best_of outside [1,20] does
\* not end with ErrWrongBestOfRange.
C4_ChatBestOfNotValidated ==
    (pc = "returned" /\ ChatCallOtherwiseFine(args) /\ BestOfOutside(args)) =>
        err # ErrWrongBestOfRange

\* C4, amended: best_of is range-checked for chat models as for legacy ones.
\* A chat call with every other parameter in range and best_of outside [1,20]
\* returns ErrWrongBestOfRange and sends nothing; with best_of inside [1,20]
\* the request goes out to the chat endpoint and its body has no best_of key.
C4_ChatBestOfValidatedThenDropped ==
    (pc # "start" /\ ChatCallOtherwiseFine(args)) =>
        /\ BestOfOutside(args) =>
              /\ pc = "returned"
              /\ err = ErrWrongBestOfRange
              /\ answers = <<>>
              /\ req.nil
              /\ calls.NewRequest = 0 /\ calls.Do = 0
        /\ ~BestOfOutside(args) =>
              /\ err \notin ValidationErrors
              /\ pc \notin {"checked", "built"} =>
                    /\ ~req.nil
                    /\ "best_of" \notin req.body.keys
                    /\ "messages" \in req.body.keys
              /\ pc \notin {"checked", "built", "created"} => calls.Do = 1

\* a chat call with best_of = 0 was rejected for it
C4_Witness ==
    /\ pc = "returned"
    /\ args.rawModel = "turbo"
    /\ ChatCallOtherwiseFine(args)
    /\ args.bestof = BestOfMin - 1
    /\ err = ErrWrongBestOfRange

-----------------------------------------------------------------------------
(* RequestImprovements: reading the response *)

\* the response carried an error object, and it was decoded
UpstreamErrorDecoded ==
    /\ pc = "returned"
    /\ calls.Unmarshal = 1
    /\ resp.Body.valid
    /\ resp.Body.error.kind = "object"

\* C5: when the decoded response has its error set, the call returns an error
\* whose message is exactly the embedded message, and no comments, even when
\* the response has choices too; the same for chat and legacy models.
C5_UpstreamErrorWins ==
    UpstreamErrorDecoded =>
        /\ err.kind = "errors.New"
        /\ err.msg = (IF resp.Body.error.message.has THEN resp.Body.error.message.s ELSE "")
        /\ answers = <<>>

\* a chat response with an error object and two populated choices
C5_Witness ==
    /\ UpstreamErrorDecoded
    /\ model.Chat
    /\ resp.Body.error.message = JStr("invalid api key")
    /\ Len(resp.Body.choices) = 2
    /\ \A i \in 1..2 : resp.Body.choices[i].content = JStr("a")
    /\ err.msg = "invalid api key"

\* the texts and the message contents of the response's choices, as decoded
ChoiceTexts(body) ==
    [i \in 1..Len(body.choices) |->
        IF body.choices[i].text.has THEN body.choices[i].text.s ELSE ""]
ChoiceContents(body) ==
    [i \in 1..Len(body.choices) |->
        IF body.choices[i].content.has THEN body.choices[i].content.s ELSE ""]
NonEmpty(x) == x # ""

\* the call returned comments for a response without error
ReturnedComments ==
    /\ pc = "returned"
    /\ err = NoErr
    /\ calls.Unmarshal = 1

\* C6: for a legacy model and an error-free response the comments are exactly
\* the non-empty texts of the choices, in response order.
C6_LegacyNonEmptyTexts ==
    (ReturnedComments /\ ~model.Chat) =>
        answers = SelectSeq(ChoiceTexts(resp.Body), NonEmpty)

\* a legacy response whose first text is empty and whose second is not
C6_Witness ==
    /\ ReturnedComments
    /\ ~model.Chat
    /\ ChoiceTexts(resp.Body) = <<"", "a">>
    /\ resp.Body.choices[1].text = JStr("")
    /\ answers = <<"a">>

\* C7: for a chat model and an error-free response there is one comment per
\* choice, in response order, equal to the choice's message.content, empty or
\* not; choice.text plays no part.
C7_ChatEveryContent ==
    (ReturnedComments /\ model.Chat) =>
        /\ answers = ChoiceContents(resp.Body)
        /\ Len(answers) = Len(resp.Body.choices)

\* a chat response whose first choice has no content but a text
C7_Witness ==
    /\ ReturnedComments
    /\ model.Chat
    /\ Len(resp.Body.choices) = 2
    /\ resp.Body.choices[1] = [text |-> JStr("b"), content |-> JAbsent]
    /\ resp.Body.choices[2] = [text |-> JAbsent, content |-> JStr("a")]
    /\ answers = <<"", "a">>

\* C8: when client.Do fails the call returns that error at once: the body is
\* neither read nor decoded and no comments are returned.
C8_TransportFailure ==
    (calls.Do > 0 /\ resp.nil) =>
        /\ pc = "returned"
        /\ err = ErrTransport
        /\ answers = <<>>
        /\ calls.ReadAll = 0 /\ calls.Unmarshal = 0
        /\ calls.Do = 1

\* the request was sent and the transport failed
C8_Witness ==
    /\ pc = "returned"
    /\ ~req.nil
    /\ calls.Do = 1
    /\ resp.nil
    /\ err = ErrTransport

\* C9: a body that cannot be decoded makes the call return a decode error to
\* its caller, and no comments.
C9_DecodeErrorReturned ==
    (calls.Unmarshal > 0 /\ ~resp.Body.valid) =>
        /\ pc = "returned"
        /\ err = ErrUnmarshal
        /\ answers = <<>>

\* C10: every return of RequestImprovements is either comments with a nil
\* error or an error with no comments; a run that ends otherwise hands over no
\* comments either.
C10_NoPartialSuccess ==
    /\ pc = "returned" => (err = NoErr \/ answers = <<>>)
    /\ pc = "panicked" => answers = <<>>

\* an error return on the path that had choices to collect from
C10_Witness ==
    /\ pc = "returned"
    /\ ~model.Chat
    /\ err.kind = "errors.New"
    /\ ChoiceTexts(resp.Body) = <<"a", "b">>
    /\ answers = <<>>

-----------------------------------------------------------------------------
(* RequestImprovements: building the request *)

\* some float argument is NaN, which encoding/json cannot encode
Unencodable(a) ==
    a.temperature.nan \/ a.top_p.nan \/ a.presence.nan \/ a.frequence.nan

\* the call got past CheckFormat with arguments that cannot be encoded
EncodingFailed == pc \notin {"start", "checked"} /\ ~Rejected(args) /\ Unencodable(args)

ChatAliases == {"turbo", "gpt4"}

\* the keys of the two request shapes on the wire
ChatRequestKeys ==
    {"model", "messages", "temperature", "max_tokens", "top_p",
     "frequency_penalty", "presence_penalty"}
CompletionRequestKeys ==
    {"model", "prompt", "temperature", "max_tokens", "top_p",
     "frequency_penalty", "presence_penalty", "best_of"}

\* C12: the family follows the descriptor's chat flag alone, and the endpoint
\* agrees with the payload: a chat model posts a chat body (messages, no prompt,
\* no best_of) to .../chat/completions, a legacy model posts a completion body
\* (prompt and best_of, no messages) to .../completions.
C12_EndpointMatchesPayload ==
    ~req.nil =>
        /\ req.method = "POST"
        /\ model.Chat = (args.rawModel \in ChatAliases)
        /\ IF args.rawModel \in ChatAliases
           THEN /\ req.url = "https://api.openai.com/v1/chat/completions"
                /\ req.body.keys = ChatRequestKeys
                /\ Len(req.body.messages) > 0
                /\ req.body.model \in {"gpt-3.5-turbo", "gpt-4"}
           ELSE /\ req.url = "https://api.openai.com/v1/completions"
                /\ req.body.keys = CompletionRequestKeys
                /\ req.body.prompt # ""
                /\ req.body.best_of = args.bestof
                /\ req.body.model \notin {"gpt-3.5-turbo", "gpt-4"}

\* a chat request and its endpoint
C12_Witness ==
    /\ ~req.nil
    /\ args.rawModel = "gpt4"
    /\ req.url = "https://api.openai.com/v1/chat/completions"
    /\ "messages" \in req.body.keys
    /\ calls.Do = 1

\* C13: a chat request has exactly two messages: the system message with the
\* fixed instruction text, then the user message with the diff as given; the
\* system message does not vary with the diff.
C13_ChatMessages ==
    (~req.nil /\ args.rawModel \in ChatAliases) =>
        /\ Len(req.body.messages) = 2
        /\ req.body.messages[1] = [Role |-> "system", Content |-> CHAT_PROMPT_INSTRUCTIONS]
        /\ req.body.messages[2] = [Role |-> "user", Content |-> args.gitDiff]

\* a chat request for the second diff
C13_Witness ==
    /\ ~req.nil
    /\ args.rawModel = "turbo"
    /\ args.gitDiff = "-b"
    /\ Len(req.body.messages) = 2
    /\ req.body.messages[2].Content = "-b"
    /\ req.body.messages[1].Role = "system"


-----------------------------------------------------------------------------
(* RequestImprovements: one request, and the status code *)

\* C14: a run issues at most one HTTP request, whatever its outcome; once the
\* request was sent the call only reads, decodes and returns, and when it has
\* ended nothing more happens.
C14_SingleAttempt ==
    /\ calls.Do <= 1
    /\ calls.NewRequest <= 1
    /\ calls.Do = 1 => pc \in {"responded", "decoded", "returned", "panicked"}
    /\ pc \in {"returned", "panicked"} => ~ENABLED Next

\* a run that sent its one request and ended on a body it could not decode
C14_Witness ==
    /\ calls.Do = 1
    /\ calls.NewRequest = 1
    /\ pc = "panicked"
    /\ ~resp.Body.valid

\* what a run returns for a response body, as a function of the model family
\* and the body alone
OutcomeOfBody(chat, body) ==
    IF body.error.kind = "object"
    THEN [answers |-> <<>>,
          err |-> [kind |-> "errors.New",
                   msg |-> IF body.error.message.has THEN body.error.message.s ELSE ""]]
    ELSE [answers |-> IF chat THEN ChoiceContents(body)
                      ELSE SelectSeq(ChoiceTexts(body), NonEmpty),
          err |-> NoErr]

\* C15: the outcome of a call is determined by the response body and never by
\* the status code: a run that got a response ends as the body alone dictates,
\* so two runs with the same arguments and the same body end alike whatever
\* their status codes; a non-2xx response without error member is a success.
C15_StatusCodeIgnored ==
    (~resp.nil /\ pc \in {"returned", "panicked"}) =>
        IF resp.Body.valid
        THEN /\ pc = "returned"
             /\ answers = OutcomeOfBody(args.rawModel \in ChatAliases, resp.Body).answers
             /\ err = OutcomeOfBody(args.rawModel \in ChatAliases, resp.Body).err
        ELSE pc = "panicked"

\* a 401 response without error member, taken as a success
C15_Witness ==
    /\ pc = "returned"
    /\ ~resp.nil
    /\ resp.StatusCode = 401
    /\ resp.Body.valid
    /\ resp.Body.error.kind = "absent"
    /\ err = NoErr
    /\ answers = <<"a">>

====
